---- MODULE Spec2Model ----
(***************************************************************************)
(* Federated-learning core: the GlobalModel aggregation transaction, the   *)
(* two coordinators that own a pending-update buffer (the FastAPI server   *)
(* of global_server/app.py and the GlobalUpdateScheduler), and the         *)
(* per-device LocalModelManager.                                           *)
(*                                                                         *)
(* Python dicts are TLA+ records: a key is present iff it is in DOMAIN.    *)
(* Floats are exact rationals [n, d].  A weight tensor is a sequence of    *)
(* rationals (its shape is its length), a model's 'weights' / 'biases' are *)
(* sequences of tensors, one per layer.                                    *)
(***************************************************************************)
EXTENDS Integers, Sequences, FiniteSets, TLC

VARIABLES
    host,                 \* which program owns this GlobalModel instance
    model,                \* GlobalModel.model: [weights, biases]
    aggregation_history,  \* GlobalModel.aggregation_history
    device_contributions, \* GlobalModel.device_contributions (dict)
    pending_updates,      \* app.pending_updates / scheduler.pending_updates
    aggregation_config,   \* app.aggregation_config (dict)
    aggregation_count,    \* ModelAggregator.aggregation_count
    aggregator_strategy,  \* ModelAggregator.aggregation_strategy
    stored,               \* content of the global model file written by save
    clock,                \* logical time: number of updates received so far
    result,               \* what the last operation returned or raised
    accepted,             \* history variable: device of every accepted update
    round_updates,        \* history variable: per round, the updates it used
    device_models,        \* LocalModelManager.device_models
    device_data_buffers,  \* LocalModelManager.device_data_buffers
    training_counts,      \* LocalModelManager.training_counts
    global_server_url,    \* LocalModelManager.global_server_url ("None": unset)
    outbox,               \* the updates send_model_update has posted
    arrivals              \* history variable: per device, every reading
                          \* handed to process_data, in order

gmvars == <<model, aggregation_history, device_contributions>>
coordvars == <<pending_updates, aggregation_config, aggregation_count,
               aggregator_strategy, stored, clock, accepted, round_updates>>
devvars == <<device_models, device_data_buffers, training_counts,
             global_server_url, outbox, arrivals>>
vars == <<host, gmvars, coordvars, result, devvars>>

---------------------------------------------------------------------------
(* Bounds of the model *)

MaxUpdates == 3
MaxRounds == 2

Devices == {"d1", "d2", "d3"}

\* the devices that post updates to a coordinator
Submitters == {"d1", "d2"}

---------------------------------------------------------------------------
(* Python dict helpers *)

Has(d, k) == k \in DOMAIN d

Get(d, k, default) == IF k \in DOMAIN d THEN d[k] ELSE default

Range(s) == {s[i] : i \in 1..Len(s)}

RECURSIVE SumSeq(_)
SumSeq(s) == IF s = <<>> THEN 0 ELSE s[1] + SumSeq(Tail(s))

---------------------------------------------------------------------------
(* Exact rational arithmetic standing for Python / numpy floats *)

Abs(x) == IF x < 0 THEN -x ELSE x

RECURSIVE GCD(_, _)
GCD(a, b) == IF b = 0 THEN a ELSE GCD(b, a % b)

Rat(n, d) ==
    LET g == GCD(Abs(n), Abs(d))
        s == IF d < 0 THEN -1 ELSE 1
    IN  [n |-> (s * n) \div g, d |-> (s * d) \div g]

RInt(k) == [n |-> k, d |-> 1]

RAdd(x, y) == Rat(x.n * y.d + y.n * x.d, x.d * y.d)

RMul(x, y) == Rat(x.n * y.n, x.d * y.d)

RDiv(x, y) == Rat(x.n * y.d, x.d * y.n)

RECURSIVE RSum(_)
RSum(s) == IF s = <<>> THEN RInt(0) ELSE RAdd(s[1], RSum(Tail(s)))

---------------------------------------------------------------------------
(* models/utils/model_utils.py: aggregate_model_weights *)

NoException == "none"

\* The value of a one-element set: S is {e} for an expression e that is
\* evaluated once and then used many times
TheOne(S) == CHOOSE x \in S : TRUE

\* weights is None: equal weights 1/n; else the weights divided by their sum
NormalizedWeights(n_models, weights) ==
    IF weights.is_none
    THEN [k \in 1..n_models |-> Rat(1, n_models)]
    ELSE TheOne({[k \in 1..Len(weights.list) |-> RDiv(weights.list[k], total)] :
                    total \in {RSum(weights.list)}})

\* the exception the layer loop raises, if any: a dict without the key, a
\* model with fewer layers than the first one, tensors of different shapes
LayerError(mwl, key) ==
    IF \E k \in 1..Len(mwl) : ~Has(mwl[k], key) THEN "KeyError"
    ELSE IF \E k \in 1..Len(mwl) : Len(mwl[k][key]) < Len(mwl[1]["weights"])
    THEN "IndexError"
    ELSE IF \E k \in 1..Len(mwl) : \E l \in 1..Len(mwl[1]["weights"]) :
              Len(mwl[k][key][l]) # Len(mwl[1][key][l])
    THEN "ValueError"
    ELSE NoException

\* lines 138-154: per layer, np.sum over the models of tensor * weight
AggregateLayers(mwl, w, key) ==
    [l \in 1..Len(mwl[1]["weights"]) |->
        [i \in 1..Len(mwl[1][key][l]) |->
            RSum([k \in 1..Len(mwl) |-> RMul(mwl[k][key][l][i], w[k])])]]

\* lines 127-156, once the weights are normalized
AggregatedDict(mwl, w, now) ==
    [weights |-> AggregateLayers(mwl, w, "weights"),
     biases |-> AggregateLayers(mwl, w, "biases"),
     architecture |-> mwl[1]["architecture"],
     timestamp |-> now]

\* what aggregate_model_weights raises, if anything
AggregateError(mwl, weights) ==
    IF ~weights.is_none /\ RSum(weights.list) = RInt(0)
    THEN "ZeroDivisionError"
    ELSE IF ~Has(mwl[1], "architecture") \/ ~Has(mwl[1], "weights")
    THEN "KeyError"
    ELSE IF LayerError(mwl, "weights") # NoException
    THEN LayerError(mwl, "weights")
    ELSE LayerError(mwl, "biases")

\* returns [raised, is_none, value]; value is the aggregated weights dict
AggregateModelWeights(mwl, weights, now) ==
    IF mwl = <<>>
    THEN [raised |-> NoException, is_none |-> TRUE]
    ELSE IF AggregateError(mwl, weights) # NoException
    THEN [raised |-> AggregateError(mwl, weights), is_none |-> FALSE]
    ELSE [raised |-> NoException, is_none |-> FALSE,
          value |-> TheOne({AggregatedDict(m, w, now) :
                               m \in {mwl},
                               w \in {NormalizedWeights(Len(mwl), weights)}})]

---------------------------------------------------------------------------
(* models/local/model_template.py: LocalNeuralNetwork.set_weights *)

SetWeights(m, weights_dict) ==
    [m EXCEPT !.weights = weights_dict["weights"],
              !.biases = weights_dict["biases"]]

---------------------------------------------------------------------------
(* models/global_model/global_model.py: GlobalModel *)

\* faulty variant: every strategy averages with equal weights
StrategyWeightsUniform(updates, aggregation_strategy) == [is_none |-> TRUE]

\* lines 67-77: the per-update aggregation weights of the chosen strategy
StrategyWeights(updates, aggregation_strategy) ==
    IF aggregation_strategy = "fedavg"
    THEN LET sample_counts ==
                 [i \in 1..Len(updates) |-> Get(updates[i], "sample_count", 1)]
             total_samples == SumSeq(sample_counts)
         IN  [is_none |-> FALSE,
              list |-> [i \in 1..Len(updates) |->
                           Rat(sample_counts[i], total_samples)]]
    ELSE IF aggregation_strategy = "weighted"
    THEN [is_none |-> FALSE,
          list |-> [i \in 1..Len(updates) |-> Get(updates[i], "weight", RInt(1))]]
    ELSE [is_none |-> TRUE]

\* lines 69-71: count / total_samples divides by zero
StrategyRaises(updates, aggregation_strategy) ==
    /\ aggregation_strategy = "fedavg"
    /\ SumSeq([i \in 1..Len(updates) |-> Get(updates[i], "sample_count", 1)]) = 0

\* faulty variant: the device ids are listed newest update first
AggregationMetaReversed(updates, aggregated_weights, aggregation_strategy) ==
    [timestamp |-> aggregated_weights["timestamp"],
     num_devices |-> Len(updates),
     device_ids |-> [i \in 1..Len(updates) |->
                        updates[Len(updates) + 1 - i]["device_id"]],
     total_samples |->
         SumSeq([i \in 1..Len(updates) |-> Get(updates[i], "sample_count", 0)]),
     aggregation_strategy |-> aggregation_strategy]

\* lines 87-93: the aggregation metadata appended to the history
AggregationMeta(updates, aggregated_weights, aggregation_strategy) ==
    [timestamp |-> aggregated_weights["timestamp"],
     num_devices |-> Len(updates),
     device_ids |-> [i \in 1..Len(updates) |-> updates[i]["device_id"]],
     total_samples |->
         SumSeq([i \in 1..Len(updates) |-> Get(updates[i], "sample_count", 0)]),
     aggregation_strategy |-> aggregation_strategy]

\* faulty variant: the counter is set to 1 instead of incremented
CountContributionReset(dc, device_id) ==
    [d \in DOMAIN dc \cup {device_id} |-> IF d = device_id THEN 1 ELSE dc[d]]

\* lines 100-102: one update's increment of its device's counter
CountContribution(dc, device_id) ==
    [d \in DOMAIN dc \cup {device_id} |->
        IF d = device_id THEN Get(dc, d, 0) + 1 ELSE dc[d]]

\* faulty variant: one increment per distinct device of the round
RECURSIVE UpdateContributionsDistinct(_, _)
UpdateContributionsDistinct(dc, updates) ==
    IF updates = <<>> THEN dc
    ELSE IF \E i \in 2..Len(updates) :
               updates[i]["device_id"] = updates[1]["device_id"]
    THEN UpdateContributionsDistinct(dc, Tail(updates))
    ELSE UpdateContributionsDistinct(
             CountContribution(dc, updates[1]["device_id"]), Tail(updates))

\* lines 98-102: the loop over the round's updates
RECURSIVE UpdateContributions(_, _)
UpdateContributions(dc, updates) ==
    IF updates = <<>> THEN dc
    ELSE UpdateContributions(CountContribution(dc, updates[1]["device_id"]),
                             Tail(updates))

\* faulty variant: the history is rebound to the new round alone
ReplaceRounds(history, aggregation_meta) == <<aggregation_meta>>

\* line 95: the history after the round
AppendRound(history, aggregation_meta) == Append(history, aggregation_meta)

\* lines 82-107: install the aggregated weights, record the round, count
\* the contributions.  A missing 'device_id' raises at line 90, after
\* set_weights.
RecordRound(gm, updates, aggregation_strategy, aggregated_weights) ==
    IF \E i \in 1..Len(updates) : ~Has(updates[i], "device_id")
    THEN [model |-> SetWeights(gm.model, aggregated_weights),
          history |-> gm.history,
          contributions |-> gm.contributions,
          raised |-> "KeyError", is_none |-> FALSE]
    ELSE [model |-> SetWeights(gm.model, aggregated_weights),
          history |->
              AppendRound(gm.history,
                          AggregationMeta(updates, aggregated_weights,
                                          aggregation_strategy)),
          contributions |-> UpdateContributions(gm.contributions, updates),
          raised |-> NoException, is_none |-> FALSE,
          meta |-> AggregationMeta(updates, aggregated_weights,
                                   aggregation_strategy)]

\* lines 58-80: what is raised before anything is changed
AggregateUpdatesError(updates, aggregation_strategy) ==
    IF \E i \in 1..Len(updates) : ~Has(updates[i], "weights")
    THEN "KeyError"
    ELSE IF StrategyRaises(updates, aggregation_strategy)
    THEN "ZeroDivisionError"
    ELSE AggregateError([i \in 1..Len(updates) |-> updates[i]["weights"]],
                        StrategyWeights(updates, aggregation_strategy))

\* GlobalModel.aggregate_updates on the state gm = [model, history,
\* contributions]: returns the state it leaves, what it raised, and what it
\* returned (is_none, or the metadata in meta)
AggregateUpdates(gm, updates, aggregation_strategy, now) ==
    IF updates = <<>>
    THEN [model |-> gm.model, history |-> gm.history,
          contributions |-> gm.contributions,
          raised |-> NoException, is_none |-> TRUE]
    ELSE IF AggregateUpdatesError(updates, aggregation_strategy) # NoException
    THEN [model |-> gm.model, history |-> gm.history,
          contributions |-> gm.contributions,
          raised |-> AggregateUpdatesError(updates, aggregation_strategy),
          is_none |-> FALSE]
    ELSE TheOne({RecordRound(gm, updates, aggregation_strategy, a.value) :
                    a \in {AggregateModelWeights(
                              [i \in 1..Len(updates) |-> updates[i]["weights"]],
                              StrategyWeights(updates, aggregation_strategy),
                              now)}})

\* the GlobalModel instance in the current state
GM == [model |-> model, history |-> aggregation_history,
       contributions |-> device_contributions]

---------------------------------------------------------------------------
(* Inputs: the weight dicts and updates the callers can hand over *)

\* LocalNeuralNetwork.get_weights of a network whose layer sizes are
\* sizes: every weight coordinate w, every bias coordinate b
ModelWeights(sizes, w, b) ==
    [weights |-> [l \in 1..(Len(sizes) - 1) |->
                     [i \in 1..(sizes[l] * sizes[l + 1]) |-> RInt(w)]],
     biases |-> [l \in 1..(Len(sizes) - 1) |->
                     [i \in 1..sizes[l + 1] |-> RInt(b)]],
     architecture |-> sizes]

\* the architecture every model is built with (4 -> [16, 8] -> 4 in the
\* source), scaled down
LayerSizes == <<1, 2, 1>>

\* the architecture of a device whose network was built with another
\* hidden layer size
OtherLayerSizes == <<1, 1, 1>>

\* (weights, sample_count) pairs a device may post: d1 also posts an update
\* that reports no samples, d2 also one of the other architecture
PayloadsOf(device_id) ==
    {[weights |-> ModelWeights(LayerSizes, 3, 1), sample_count |-> 2]}
    \cup (IF device_id = "d1"
          THEN {[weights |-> ModelWeights(LayerSizes, 1, 0), sample_count |-> 0]}
          ELSE {[weights |-> ModelWeights(OtherLayerSizes, 1, 0),
                 sample_count |-> 1]})

Payloads == UNION {PayloadsOf(d) : d \in Submitters}

\* payloads LocalModelManager.send_model_update produces: the weights of a
\* real network, sample_count a positive training count
DevicePayloads ==
    {[weights |-> ModelWeights(LayerSizes, 3, 1), sample_count |-> 2],
     [weights |-> ModelWeights(LayerSizes, 1, 0), sample_count |-> 4]}

---------------------------------------------------------------------------
(* global_server/app.py *)

AutoAggregateThreshold == 5

\* dicts posted to /api/config
Configs ==
    {[auto_aggregate_threshold |-> 2]} \cup {[manual_mode |-> b] : b \in BOOLEAN}

\* the timestamps (identities) of the updates of a batch
Stamps(updates) == {updates[i]["timestamp"] : i \in 1..Len(updates)}

\* faulty variant: the failed trigger drops the batch
PendingDroppedOnFailure(pending) == <<>>

\* lines 162-164: the except branch leaves pending_updates as they are
PendingAfterFailure(pending) == pending

\* line 155: the round number reported to the caller
ReportedRound(history) == Len(history)

\* lines 141-164: the outcome of the trigger given what aggregate_updates
\* did (r)
TriggerOutcome(r, p, save_ok) ==
    IF r.raised # NoException
    THEN [gm |-> r, pending |-> PendingAfterFailure(p), saved |-> FALSE,
          applied |-> FALSE,
          response |-> [status |-> "error", http |-> 500, detail |-> r.raised]]
    ELSE IF r.is_none
    THEN [gm |-> r, pending |-> PendingAfterFailure(p), saved |-> FALSE,
          applied |-> FALSE,
          response |-> [status |-> "error", http |-> 500,
                        detail |-> "Aggregation failed"]]
    ELSE IF ~save_ok
    THEN [gm |-> r, pending |-> PendingAfterFailure(p), saved |-> FALSE,
          applied |-> TRUE,
          response |-> [status |-> "error", http |-> 500, detail |-> "OSError"]]
    ELSE [gm |-> r, pending |-> <<>>, saved |-> TRUE, applied |-> TRUE,
          response |-> [status |-> "success", http |-> 200,
                        aggregated_updates |-> Len(p),
                        aggregation_round |-> ReportedRound(r.history),
                        timestamp |-> r.meta.timestamp,
                        device_ids |-> r.meta.device_ids]]

\* faulty variant: a trigger that finds no pending update records an empty
\* round
TriggerRecordsEmptyRound(gm, p, now, save_ok) ==
    IF p = <<>>
    THEN [gm |-> [gm EXCEPT !.history =
                     Append(@, [timestamp |-> now, num_devices |-> 0,
                                device_ids |-> <<>>, total_samples |-> 0,
                                aggregation_strategy |-> "fedavg"])],
          pending |-> p, saved |-> FALSE, applied |-> FALSE,
          response |-> [status |-> "no_updates", http |-> 200]]
    ELSE TheOne({TriggerOutcome(r, p, save_ok) :
                    r \in {AggregateUpdates(gm, p, "fedavg", now)}})

\* trigger_aggregation (lines 120-164) on pending buffer p: the state it
\* leaves and the response.  save_ok: whether global_model.save succeeds.
Trigger(gm, p, now, save_ok) ==
    IF p = <<>>
    THEN [gm |-> gm, pending |-> p, saved |-> FALSE, applied |-> FALSE,
          response |-> [status |-> "no_updates", http |-> 200]]
    ELSE TheOne({TriggerOutcome(r, p, save_ok) :
                    r \in {AggregateUpdates(gm, p, "fedavg", now)}})

\* the effect of a trigger outcome t on the shared state
ApplyTrigger(t, batch) ==
    /\ model' = t.gm.model
    /\ aggregation_history' = t.gm.history
    /\ device_contributions' = t.gm.contributions
    /\ pending_updates' = t.pending
    /\ stored' = IF t.saved THEN [written |-> TRUE, model |-> t.gm.model]
                 ELSE stored
    /\ round_updates' = IF t.applied
                        THEN Append(round_updates, Stamps(batch))
                        ELSE round_updates

\* lines 97-98: whether the submit auto-triggers
ThresholdReached(config, pending) ==
    /\ ~config["manual_mode"]
    /\ Len(pending) >= config["auto_aggregate_threshold"]

\* POST /api/local-update (lines 77-116)
ReceiveLocalUpdate(device_id, payload, save_ok) ==
    /\ host = "app"
    /\ clock < MaxUpdates
    /\ Len(aggregation_history) < MaxRounds
    /\ LET update_dict == [device_id |-> device_id,
                           weights |-> payload.weights,
                           sample_count |-> payload.sample_count,
                           timestamp |-> clock + 1,
                           metadata |-> <<>>]
           appended == Append(pending_updates, update_dict)
       IN  /\ clock' = clock + 1
           /\ accepted' = Append(accepted, device_id)
           /\ IF ThresholdReached(aggregation_config, appended)
              THEN \E t \in {Trigger(GM, appended, clock + 1, save_ok)} :
                       /\ ApplyTrigger(t, appended)
                       /\ result' =
                            IF t.response.http = 500
                            THEN [op |-> "local-update", status |-> "error",
                                  http |-> 500, device_id |-> device_id]
                            ELSE [op |-> "local-update",
                                  status |-> "received_and_aggregated",
                                  http |-> 200, device_id |-> device_id,
                                  pending_updates |-> 0,
                                  aggregation_result |-> t.response]
              ELSE /\ pending_updates' = appended
                   /\ result' = [op |-> "local-update", status |-> "received",
                                 http |-> 200, device_id |-> device_id,
                                 pending_updates |-> Len(appended)]
                   /\ UNCHANGED <<gmvars, stored, round_updates>>
    /\ UNCHANGED <<host, aggregator_strategy, aggregation_config, aggregation_count, devvars>>

\* POST /api/aggregate (lines 119-164)
TriggerAggregation(save_ok) ==
    /\ host = "app"
    /\ Len(aggregation_history) < MaxRounds
    /\ \E t \in {Trigger(GM, pending_updates, clock, save_ok)} :
           /\ ApplyTrigger(t, pending_updates)
           /\ result' = [op |-> "aggregate"] @@ t.response
    /\ UNCHANGED <<host, aggregator_strategy, aggregation_config, aggregation_count, clock,
                   accepted, devvars>>

\* POST /api/config (lines 215-233): dict.update
UpdateConfig(config) ==
    /\ host = "app"
    /\ aggregation_config' =
          [k \in DOMAIN aggregation_config |-> Get(config, k, aggregation_config[k])]
    /\ result' = [op |-> "config", http |-> 200, status |-> "updated"]
    /\ UNCHANGED <<host, aggregator_strategy, gmvars, pending_updates, aggregation_count, stored,
                   clock, accepted, round_updates, devvars>>

---------------------------------------------------------------------------
(* models/global_model/aggregator.py: ModelAggregator *)

\* federated_averaging (lines 40-68)
FederatedAveraging(model_updates, now) ==
    IF model_updates = <<>>
    THEN [raised |-> NoException, is_none |-> TRUE]
    ELSE IF SumSeq([i \in 1..Len(model_updates) |->
                       Get(model_updates[i], "sample_count", 1)]) = 0
    THEN [raised |-> "ZeroDivisionError", is_none |-> FALSE]
    ELSE IF \E i \in 1..Len(model_updates) : ~Has(model_updates[i], "weights")
    THEN [raised |-> "KeyError", is_none |-> FALSE]
    ELSE AggregateModelWeights(
             [i \in 1..Len(model_updates) |-> model_updates[i]["weights"]],
             StrategyWeights(model_updates, "fedavg"), now)

\* equal_averaging (lines 70-88)
EqualAveraging(model_updates, now) ==
    IF model_updates = <<>>
    THEN [raised |-> NoException, is_none |-> TRUE]
    ELSE IF \E i \in 1..Len(model_updates) : ~Has(model_updates[i], "weights")
    THEN [raised |-> "KeyError", is_none |-> FALSE]
    ELSE AggregateModelWeights(
             [i \in 1..Len(model_updates) |-> model_updates[i]["weights"]],
             [is_none |-> TRUE], now)

\* weighted_averaging (lines 90-111)
WeightedAveraging(model_updates, now) ==
    IF model_updates = <<>>
    THEN [raised |-> NoException, is_none |-> TRUE]
    ELSE IF \E i \in 1..Len(model_updates) : ~Has(model_updates[i], "weights")
    THEN [raised |-> "KeyError", is_none |-> FALSE]
    ELSE AggregateModelWeights(
             [i \in 1..Len(model_updates) |-> model_updates[i]["weights"]],
             [is_none |-> FALSE,
              list |-> [i \in 1..Len(model_updates) |->
                           Get(model_updates[i], "weight", RInt(1))]],
             now)

RLess(x, y) == x.n * y.d < y.n * x.d

\* the k-th smallest value of a sequence of rationals
KthSmallest(s, k) ==
    CHOOSE v \in Range(s) :
        /\ Cardinality({i \in 1..Len(s) : RLess(s[i], v)}) < k
        /\ Cardinality({i \in 1..Len(s) : ~RLess(v, s[i])}) >= k

\* np.median of a non-empty sequence
Median(s) ==
    IF Len(s) % 2 = 1
    THEN KthSmallest(s, (Len(s) + 1) \div 2)
    ELSE RDiv(RAdd(KthSmallest(s, Len(s) \div 2),
                   KthSmallest(s, Len(s) \div 2 + 1)),
              RInt(2))

\* lines 139-156: per layer, the coordinate-wise median over the models
MedianLayers(mwl, key) ==
    [l \in 1..Len(mwl[1]["weights"]) |->
        [i \in 1..Len(mwl[1][key][l]) |->
            Median([k \in 1..Len(mwl) |-> mwl[k][key][l][i]])]]

\* lines 126-160, for the list of weight dicts
MedianOfWeights(mwl, now) ==
    IF AggregateError(mwl, [is_none |-> TRUE]) # NoException
    THEN [raised |-> AggregateError(mwl, [is_none |-> TRUE]), is_none |-> FALSE]
    ELSE [raised |-> NoException, is_none |-> FALSE,
          value |-> [weights |-> MedianLayers(mwl, "weights"),
                     biases |-> MedianLayers(mwl, "biases"),
                     architecture |-> mwl[1]["architecture"],
                     timestamp |-> now]]

\* median_aggregation (lines 113-160)
MedianAggregation(model_updates, now) ==
    IF model_updates = <<>>
    THEN [raised |-> NoException, is_none |-> TRUE]
    ELSE IF \E i \in 1..Len(model_updates) : ~Has(model_updates[i], "weights")
    THEN [raised |-> "KeyError", is_none |-> FALSE]
    ELSE MedianOfWeights(
             [i \in 1..Len(model_updates) |-> model_updates[i]["weights"]], now)

\* the strategy tags aggregate dispatches on (lines 177-184)
Strategies == {"fedavg", "equal", "weighted", "median"}

\* lines 177-184: the method the configured strategy selects
StrategyResult(strategy, model_updates, now) ==
    IF strategy = "fedavg" THEN FederatedAveraging(model_updates, now)
    ELSE IF strategy = "equal" THEN EqualAveraging(model_updates, now)
    ELSE IF strategy = "weighted" THEN WeightedAveraging(model_updates, now)
    ELSE MedianAggregation(model_updates, now)

\* lines 189-201: the metadata and the counter once the strategy returned
AggregateResult(strategy, model_updates, aggregated, count, now) ==
    IF aggregated.raised # NoException
    THEN [raised |-> aggregated.raised, is_none |-> FALSE, count |-> count]
    ELSE IF \E i \in 1..Len(model_updates) : ~Has(model_updates[i], "device_id")
    THEN [raised |-> "KeyError", is_none |-> FALSE, count |-> count]
    ELSE [raised |-> NoException, is_none |-> FALSE,
          value |-> aggregated.value,
          metadata |->
              [aggregation_round |-> count,
               timestamp |-> now,
               strategy |-> strategy,
               num_models |-> Len(model_updates),
               device_ids |-> [i \in 1..Len(model_updates) |->
                                  model_updates[i]["device_id"]],
               total_samples |->
                   SumSeq([i \in 1..Len(model_updates) |->
                              Get(model_updates[i], "sample_count", 0)])],
          count |-> count + 1]

\* aggregate (lines 162-201) of an aggregator configured with strategy:
\* returns what it raised, the aggregated weights (or None), the metadata
\* and the aggregator's aggregation_count afterwards.  No updates, or an
\* unknown strategy: (None, None).
AggregatorAggregate(strategy, model_updates, count, now) ==
    IF model_updates = <<>> \/ strategy \notin Strategies
    THEN [raised |-> NoException, is_none |-> TRUE, count |-> count]
    ELSE TheOne({AggregateResult(strategy, model_updates, aggregated, count, now) :
                    aggregated \in {StrategyResult(strategy, model_updates, now)}})

\* the concatenation of a sequence of sequences
RECURSIVE Flatten(_)
Flatten(ss) == IF ss = <<>> THEN <<>> ELSE ss[1] \o Flatten(Tail(ss))

\* model_utils.py lines 81-87: all weights, then all biases, in one vector
FlattenWeights(weights_dict) ==
    Flatten(weights_dict["weights"]) \o Flatten(weights_dict["biases"])

\* the square root of a natural number that is a perfect square
ISqrt(n) == CHOOSE r \in 0..n : r * r = n

\* np.linalg.norm of a vector whose norm is rational
Norm(vec) ==
    TheOne({Rat(ISqrt(sq.n), ISqrt(sq.d)) :
               sq \in {RSum([i \in 1..Len(vec) |-> RMul(vec[i], vec[i])])}})

\* model_utils.py lines 92-101: the cosine of two vectors of one length,
\* 0.0 when one of them has zero norm
Cosine(vec1, vec2) ==
    IF Norm(vec1) = RInt(0) \/ Norm(vec2) = RInt(0)
    THEN RInt(0)
    ELSE RDiv(RSum([i \in 1..Len(vec1) |-> RMul(vec1[i], vec2[i])]),
              RMul(Norm(vec1), Norm(vec2)))

\* compute_model_similarity (model_utils.py lines 69-101): np.dot raises
\* for vectors of different lengths
ComputeModelSimilarity(model1_weights, model2_weights) ==
    IF Len(FlattenWeights(model1_weights)) # Len(FlattenWeights(model2_weights))
    THEN [raised |-> "ValueError"]
    ELSE [raised |-> NoException,
          value |-> Cosine(FlattenWeights(model1_weights),
                           FlattenWeights(model2_weights))]

\* lines 220-226: the pairs (i, j), i < j, in the order of the two loops
RECURSIVE PairsFrom(_, _, _)
PairsFrom(i, j, n) ==
    IF i >= n THEN <<>>
    ELSE IF j > n THEN PairsFrom(i + 1, i + 2, n)
    ELSE <<(<<i, j>>)>> \o PairsFrom(i, j + 1, n)

\* compute_consensus_score (lines 203-233): 1.0 for fewer than two updates,
\* else the mean of the pairwise similarities
ComputeConsensusScore(model_updates) ==
    IF Len(model_updates) < 2
    THEN [raised |-> NoException, value |-> RInt(1)]
    ELSE IF \E i \in 1..Len(model_updates) : ~Has(model_updates[i], "weights")
    THEN [raised |-> "KeyError"]
    ELSE LET pairs == PairsFrom(1, 2, Len(model_updates))
             similarities ==
                 [k \in 1..Len(pairs) |->
                     ComputeModelSimilarity(model_updates[pairs[k][1]]["weights"],
                                            model_updates[pairs[k][2]]["weights"])]
         IN  IF \E k \in 1..Len(pairs) : similarities[k].raised # NoException
             THEN [raised |-> "ValueError"]
             ELSE [raised |-> NoException,
                   value |-> RDiv(RSum([k \in 1..Len(pairs) |->
                                           similarities[k].value]),
                                  RInt(Len(pairs)))]

---------------------------------------------------------------------------
(* models/global_model/global_update_scheduler.py: GlobalUpdateScheduler *)

\* receive_local_update (lines 54-73)
SchedReceiveLocalUpdate(device_id, payload) ==
    /\ host = "scheduler"
    /\ clock < MaxUpdates
    /\ Len(aggregation_history) < MaxRounds
    /\ pending_updates' =
          Append(pending_updates,
                 [device_id |-> device_id,
                  weights |-> payload.weights,
                  sample_count |-> payload.sample_count,
                  timestamp |-> clock + 1,
                  metadata |-> <<>>])
    /\ clock' = clock + 1
    /\ accepted' = Append(accepted, device_id)
    /\ result' = [op |-> "receive_local_update", raised |-> NoException]
    /\ UNCHANGED <<host, aggregator_strategy, gmvars, aggregation_config, aggregation_count,
                   stored, round_updates, devvars>>

\* perform_aggregation (lines 75-110); save_ok: whether
\* global_model.save succeeds.  An exception leaves the method at once.
PerformAggregation(save_ok) ==
    /\ host = "scheduler"
    /\ Len(aggregation_history) < MaxRounds
    /\ IF pending_updates = <<>>
       THEN /\ result' = [op |-> "perform_aggregation", raised |-> NoException,
                          skipped |-> TRUE]
            /\ UNCHANGED <<gmvars, pending_updates, aggregation_count, stored,
                           round_updates>>
       ELSE
       \E a \in {AggregatorAggregate(aggregator_strategy, pending_updates,
                                     aggregation_count, clock)} :
       IF a.raised # NoException
       THEN /\ result' = [op |-> "perform_aggregation", raised |-> a.raised,
                          skipped |-> FALSE]
            /\ aggregation_count' = a.count
            /\ UNCHANGED <<gmvars, pending_updates, stored, round_updates>>
       ELSE
       \E r \in {AggregateUpdates(GM, pending_updates, "fedavg", clock)} :
           /\ aggregation_count' = a.count
           /\ model' = r.model
           /\ aggregation_history' = r.history
           /\ device_contributions' = r.contributions
           /\ round_updates' =
                 IF r.raised = NoException /\ ~r.is_none
                 THEN Append(round_updates, Stamps(pending_updates))
                 ELSE round_updates
           /\ IF r.raised # NoException
              THEN /\ result' = [op |-> "perform_aggregation",
                                 raised |-> r.raised, skipped |-> FALSE]
                   /\ UNCHANGED <<pending_updates, stored>>
              ELSE IF ~save_ok
              THEN /\ result' = [op |-> "perform_aggregation",
                                 raised |-> "OSError", skipped |-> FALSE]
                   /\ UNCHANGED <<pending_updates, stored>>
              ELSE /\ result' = [op |-> "perform_aggregation",
                                 raised |-> NoException, skipped |-> FALSE,
                                 aggregation_round |-> a.metadata.aggregation_round]
                   /\ stored' = [written |-> TRUE, model |-> r.model]
                   /\ pending_updates' = <<>>
    /\ UNCHANGED <<host, aggregator_strategy, aggregation_config, clock, accepted, devvars>>

---------------------------------------------------------------------------
(* GlobalModel used directly: aggregate_updates, save, load *)

LibraryUpdate(device_id, payload, stamp) ==
    [device_id |-> device_id, weights |-> payload.weights,
     sample_count |-> payload.sample_count, timestamp |-> stamp]

\* an update dict that lacks the 'device_id' key
AnonymousUpdate(payload, stamp) ==
    [weights |-> payload.weights, sample_count |-> payload.sample_count,
     timestamp |-> stamp]

\* the strategies the library user asks for: the sample-weighted one, one
\* that falls to equal weights, and a tag no strategy bears
LibraryStrategies == {"fedavg", "equal", "trimmed_mean"}

\* the architecture of a network with one more layer than LayerSizes
DeeperLayerSizes == <<1, 2, 1, 1>>

\* the update lists handed to aggregate_updates
LibraryBatches ==
    LET p1 == [weights |-> ModelWeights(LayerSizes, 1, 0), sample_count |-> 1]
        p2 == [weights |-> ModelWeights(LayerSizes, 3, 1), sample_count |-> 2]
        p0 == [weights |-> ModelWeights(LayerSizes, 1, 0), sample_count |-> 0]
        pd == [weights |-> ModelWeights(DeeperLayerSizes, 3, 1), sample_count |-> 1]
        po == [weights |-> ModelWeights(OtherLayerSizes, 3, 1), sample_count |-> 1]
    IN  {<<>>,
         <<LibraryUpdate("d1", p1, 1)>>,
         <<LibraryUpdate("d1", p1, 1), LibraryUpdate("d2", p2, 2)>>,
         <<LibraryUpdate("d1", p1, 1), LibraryUpdate("d1", p2, 2)>>,
         <<LibraryUpdate("d3", p0, 1)>>,
         <<LibraryUpdate("d2", p2, 1), AnonymousUpdate(p1, 2)>>,
         <<LibraryUpdate("d1", p1, 1), LibraryUpdate("d2", pd, 2)>>,
         <<LibraryUpdate("d1", p1, 1), LibraryUpdate("d2", po, 2)>>}

\* GlobalModel.aggregate_updates (lines 43-109) called by a library user
LibAggregateUpdates(updates, aggregation_strategy) ==
    /\ host = "library"
    /\ Len(aggregation_history) < MaxRounds
    /\ \E r \in {AggregateUpdates(GM, updates, aggregation_strategy, clock)} :
           /\ model' = r.model
           /\ aggregation_history' = r.history
           /\ device_contributions' = r.contributions
           /\ round_updates' =
                 IF r.raised = NoException /\ ~r.is_none
                 THEN Append(round_updates, Stamps(updates))
                 ELSE round_updates
           /\ result' = [op |-> "aggregate_updates", raised |-> r.raised,
                         is_none |-> r.is_none,
                         strategy |-> aggregation_strategy,
                         architectures |->
                             [i \in 1..Len(updates) |->
                                 updates[i]["weights"]["architecture"]]]
    /\ UNCHANGED <<host, aggregator_strategy, pending_updates, aggregation_config,
                   aggregation_count, stored, clock, accepted, devvars>>

\* GlobalModel.save (lines 155-163)
LibSave(save_ok) ==
    /\ host = "library"
    /\ IF save_ok
       THEN /\ stored' = [written |-> TRUE, model |-> model]
            /\ result' = [op |-> "save", raised |-> NoException]
       ELSE /\ stored' = stored
            /\ result' = [op |-> "save", raised |-> "OSError"]
    /\ UNCHANGED <<host, aggregator_strategy, gmvars, pending_updates, aggregation_config,
                   aggregation_count, clock, accepted, round_updates, devvars>>

\* what load leaves of the history
HistoryAfterLoad(history) == history

\* GlobalModel.load (lines 165-173): replaces self.model only
LibLoad ==
    /\ host = "library"
    /\ IF stored.written
       THEN /\ model' = stored.model
            /\ result' = [op |-> "load", raised |-> NoException]
       ELSE /\ model' = model
            /\ result' = [op |-> "load", raised |-> "FileNotFoundError"]
    /\ aggregation_history' = HistoryAfterLoad(aggregation_history)
    /\ UNCHANGED <<host, aggregator_strategy, device_contributions, coordvars, devvars>>

---------------------------------------------------------------------------
(* ModelAggregator used directly *)

\* the strategy an aggregator is constructed with
AggregatorStrategies == Strategies \cup {"trimmed_mean"}

\* ModelAggregator.aggregate (lines 162-201) called by a library user
AggregatorRun(model_updates) ==
    /\ host = "aggregator"
    /\ aggregation_count < MaxRounds
    /\ \E a \in {AggregatorAggregate(aggregator_strategy, model_updates,
                                     aggregation_count, clock)} :
           /\ aggregation_count' = a.count
           /\ result' = [op |-> "aggregator.aggregate",
                         strategy |-> aggregator_strategy,
                         num_updates |-> Len(model_updates),
                         returned |-> [f \in DOMAIN a \ {"count"} |-> a[f]]]
    /\ UNCHANGED <<host, aggregator_strategy, gmvars, pending_updates,
                   aggregation_config, stored, clock, accepted, round_updates,
                   devvars>>

---------------------------------------------------------------------------
(* flink/flink_local_model_manager.py: LocalModelManager, and
   models/local/model_template.py: create_training_data, train_step *)

\* the sliding window keeps 1000 readings in the source (line 88); scaled
BufferCapacity == 2

\* update_frequency (100 by default, line 26), scaled
UpdateFrequency == 2

MaxReadings == 4

\* the devices of the reading stream
Sensed == {"d1", "d2"}

SensorFields == {"temperature", "humidity", "light", "voltage"}

\* the sensors dicts of the stream: complete ones, and one without 'voltage'
SensorReadings ==
    {[temperature |-> v, humidity |-> v, light |-> v, voltage |-> v] :
        v \in {1, 2}}
    \cup {[temperature |-> 1, humidity |-> 1, light |-> 1]}

\* create_training_data (lines 280-311): the four features of a reading;
\* a missing key raises KeyError
Features(sensor_reading) ==
    <<sensor_reading["temperature"], sensor_reading["humidity"],
      sensor_reading["light"], sensor_reading["voltage"]>>

CreateTrainingDataRaises(sensor_reading, next_reading) ==
    \/ \E f \in SensorFields : ~Has(sensor_reading, f)
    \/ \E f \in SensorFields : ~Has(next_reading, f)

\* LocalNeuralNetwork.__init__ (lines 17-53).  The weights of a local
\* network are kept symbolically: the weights it started from and the
\* training pairs applied to them since, in order.
NewNetwork == [base |-> "xavier", steps |-> <<>>, update_count |-> 0]

\* train_step (lines 135-175): one SGD step on the pair (X, y)
TrainStep(network, X, y) ==
    [network EXCEPT !.steps = Append(@, <<X, y>>),
                    !.update_count = @ + 1]

\* faulty variant: the window is never trimmed
BufferAppendUnbounded(buffer, reading) == Append(buffer, reading)

\* faulty variant: beyond the window the newest reading replaces the one
\* before it, the oldest one stays
BufferAppendKeepOldest(buffer, reading) ==
    IF Len(buffer) + 1 > BufferCapacity
    THEN Append(SubSeq(buffer, 1, Len(buffer) - 1), reading)
    ELSE Append(buffer, reading)

\* lines 82-89: append the reading, drop the oldest one beyond the window
BufferAppend(buffer, reading) ==
    IF Len(buffer) + 1 > BufferCapacity
    THEN Tail(Append(buffer, reading))
    ELSE Append(buffer, reading)

\* faulty variant: the value is bound to every key of the dict
PutEverywhere(dict, k, v) == [x \in DOMAIN dict \cup {k} |-> v]

\* a dict with one more key (or one key rebound)
Put(dict, k, v) == [x \in DOMAIN dict \cup {k} |-> IF x = k THEN v ELSE dict[x]]

\* line 141: the sample_count of an update is the device's training count
SampleCount(training_count) == training_count

\* send_model_update (lines 127-157): the update posted to the server for a
\* device whose network and training count are given.  send_ok: whether
\* the POST succeeds; a failure is logged and swallowed.
SendModelUpdate(device_id, network, training_count, send_ok) ==
    [device_id |-> device_id,
     weights |-> network,
     sample_count |-> SampleCount(training_count),
     delivered |-> send_ok]

\* faulty variant: an update is due after every training step
ShouldUpdateAlways(training_count) == TRUE

\* line 107: whether an update is due at this training count
ShouldUpdate(training_count) == training_count % UpdateFrequency = 0

\* process_data (lines 66-125).  send_ok: whether the POST of
\* send_model_update succeeds.
ProcessData(device_id, sensors, send_ok) ==
    /\ host = "flink"
    /\ clock < MaxReadings
    /\ clock' = clock + 1
    /\ arrivals' = Put(arrivals, device_id,
                       Append(Get(arrivals, device_id, <<>>),
                              [sensors |-> sensors, timestamp |-> clock + 1]))
    /\ LET network == Get(device_models, device_id, NewNetwork)
           count == Get(training_counts, device_id, 0)
           buffer == BufferAppend(Get(device_data_buffers, device_id, <<>>),
                                  [sensors |-> sensors, timestamp |-> clock + 1])
       IN
       /\ device_data_buffers' = Put(device_data_buffers, device_id, buffer)
       /\ IF Len(buffer) < 2
          THEN /\ device_models' = Put(device_models, device_id, network)
               /\ training_counts' = Put(training_counts, device_id, count)
               /\ outbox' = outbox
               /\ result' = [op |-> "process_data", device_id |-> device_id,
                             sensors |-> sensors, raised |-> NoException,
                             is_none |-> TRUE]
          ELSE IF CreateTrainingDataRaises(buffer[Len(buffer) - 1].sensors,
                                           buffer[Len(buffer)].sensors)
          THEN /\ device_models' = Put(device_models, device_id, network)
               /\ training_counts' = Put(training_counts, device_id, count)
               /\ outbox' = outbox
               /\ result' = [op |-> "process_data", device_id |-> device_id,
                             sensors |-> sensors, raised |-> "KeyError",
                             is_none |-> FALSE]
          ELSE
          LET trained == TrainStep(network,
                                   Features(buffer[Len(buffer) - 1].sensors),
                                   Features(buffer[Len(buffer)].sensors))
              should_update == ShouldUpdate(count + 1)
          IN  /\ device_models' = Put(device_models, device_id, trained)
              /\ training_counts' = Put(training_counts, device_id, count + 1)
              /\ outbox' = IF should_update /\ global_server_url # "None"
                           THEN Append(outbox,
                                       SendModelUpdate(device_id, trained,
                                                       count + 1, send_ok))
                           ELSE outbox
              /\ result' = [op |-> "process_data", device_id |-> device_id,
                            sensors |-> sensors, raised |-> NoException,
                            is_none |-> FALSE,
                            training_count |-> count + 1,
                            update_sent |-> should_update]
    /\ UNCHANGED <<host, aggregator_strategy, gmvars, pending_updates, aggregation_config,
                   aggregation_count, stored, accepted, round_updates,
                   global_server_url>>

\* the weight dicts handed to update_from_global: of the devices'
\* architecture, and of another one
GlobalWeightSets ==
    {ModelWeights(LayerSizes, 2, 1), ModelWeights(OtherLayerSizes, 2, 1)}

\* set_weights (model_template.py lines 217-225) on a device's network: the
\* given weights and biases replace the network's, whatever their shapes;
\* the training history is kept
LocalSetWeights(network, weights_dict) ==
    [network EXCEPT !.base = [weights |-> weights_dict["weights"],
                              biases |-> weights_dict["biases"]],
                    !.steps = <<>>]

\* update_from_global (lines 185-195)
UpdateFromGlobal(device_id, global_weights) ==
    /\ host = "flink"
    /\ device_models' =
          IF Has(device_models, device_id)
          THEN Put(device_models, device_id,
                   LocalSetWeights(device_models[device_id], global_weights))
          ELSE device_models
    /\ result' = [op |-> "update_from_global", device_id |-> device_id,
                  architecture |-> global_weights["architecture"],
                  raised |-> NoException]
    /\ UNCHANGED <<host, aggregator_strategy, gmvars, coordvars,
                   device_data_buffers, training_counts, global_server_url,
                   outbox, arrivals>>

---------------------------------------------------------------------------
(* The programs *)

\* GlobalModel.__init__ (lines 26-41) and the module state of app.py
\* (lines 56-62) / GlobalUpdateScheduler.__init__ (lines 32-52)
InitGlobal ==
    /\ model = [weights |-> ModelWeights(LayerSizes, 0, 0).weights,
                biases |-> ModelWeights(LayerSizes, 0, 0).biases]
    /\ aggregation_history = <<>>
    /\ device_contributions = <<>>
    /\ pending_updates = <<>>
    /\ aggregation_config = [auto_aggregate_threshold |-> AutoAggregateThreshold,
                             manual_mode |-> FALSE]
    /\ aggregation_count = 0
    /\ aggregator_strategy \in AggregatorStrategies
    /\ host # "aggregator" => aggregator_strategy = "fedavg"
    /\ stored = [written |-> FALSE]
    /\ clock = 0
    /\ result = [op |-> "init"]
    /\ accepted = <<>>
    /\ round_updates = <<>>

\* LocalModelManager.__init__ (lines 26-40)
InitDevices ==
    /\ device_models = <<>>
    /\ device_data_buffers = <<>>
    /\ training_counts = <<>>
    /\ outbox = <<>>
    /\ arrivals = <<>>

Init ==
    /\ host \in {"app", "scheduler", "library", "aggregator"}
    /\ InitGlobal
    /\ InitDevices
    /\ global_server_url = "None"

Next ==
    \/ \E d \in Submitters, ok \in BOOLEAN : \E p \in PayloadsOf(d) :
          ReceiveLocalUpdate(d, p, ok)
    \/ \E ok \in BOOLEAN : TriggerAggregation(ok)
    \/ \E c \in Configs : UpdateConfig(c)
    \/ \E d \in Submitters : \E p \in PayloadsOf(d) :
          SchedReceiveLocalUpdate(d, p)
    \/ \E ok \in BOOLEAN : PerformAggregation(ok)
    \/ \E b \in LibraryBatches, st \in LibraryStrategies :
          LibAggregateUpdates(b, st)
    \/ \E ok \in BOOLEAN : LibSave(ok)
    \/ LibLoad
    \/ \E b \in LibraryBatches : AggregatorRun(b)

Spec == Init /\ [][Next]_vars

\* The stream job: one LocalModelManager fed with the readings of the
\* devices
InitFlink ==
    /\ host = "flink"
    /\ InitGlobal
    /\ InitDevices
    /\ global_server_url \in {"None", "http://global-server"}

NextFlink ==
    \/ \E d \in Sensed, r \in SensorReadings, ok \in BOOLEAN :
          ProcessData(d, r, ok)
    \/ \E d \in Sensed, g \in GlobalWeightSets : UpdateFromGlobal(d, g)

SpecFlink == InitFlink /\ [][NextFlink]_vars

\* Count mode: the server configured with threshold K, and K device tasks
\* that each post one update
PostedDevices ==
    Range(accepted)

InitCount ==
    /\ host = "app"
    /\ InitGlobal
    /\ InitDevices
    /\ global_server_url = "None"

ConfigureThreshold(k) ==
    /\ clock = 0
    /\ aggregation_config["auto_aggregate_threshold"] = AutoAggregateThreshold
    /\ UpdateConfig([auto_aggregate_threshold |-> k])

PostOnce(d, p, ok) ==
    /\ aggregation_config["auto_aggregate_threshold"] # AutoAggregateThreshold
    /\ d \notin PostedDevices
    /\ Cardinality(PostedDevices) < aggregation_config["auto_aggregate_threshold"]
    /\ ReceiveLocalUpdate(d, p, ok)

NextCount ==
    \/ \E k \in 1..Cardinality(Devices) : ConfigureThreshold(k)
    \/ \E d \in Devices, p \in DevicePayloads, ok \in BOOLEAN : PostOnce(d, p, ok)

SpecCount == InitCount /\ [][NextCount]_vars

\* The two coordinators with their triggers: the server in count mode
\* (threshold configured before the first submit) and the scheduler, whose
\* timer wakes up again and again (start, lines 143-155)
InitLive ==
    /\ host \in {"app", "scheduler"}
    /\ InitGlobal
    /\ InitDevices
    /\ global_server_url = "None"

TimerWakeUp == \E ok \in BOOLEAN : PerformAggregation(ok)

NextLive ==
    \/ \E k \in 1..2 : ConfigureThreshold(k)
    \/ \E d \in Submitters, ok \in BOOLEAN : \E p \in PayloadsOf(d) :
          ReceiveLocalUpdate(d, p, ok)
    \/ \E d \in Submitters : \E p \in PayloadsOf(d) :
          SchedReceiveLocalUpdate(d, p)
    \/ TimerWakeUp

SpecLive == InitLive /\ [][NextLive]_vars /\ WF_vars(TimerWakeUp)

---------------------------------------------------------------------------
(* The aggregation functions applied once to a batch of updates *)

MaxBatch == 3

\* the updates of a batch: what the network holds in every weight (v) and
\* bias (b) coordinate, the sample count, the metadata handed to submit, and
\* the keys a library caller adds to the update dict itself (extra)
\* (the values are such that every flattened vector has an integer norm)
UpdateKinds ==
    {[v |-> 1, b |-> 0, sample_count |-> 1, metadata |-> [weight |-> RInt(1)],
      extra |-> <<>>],
     [v |-> 3, b |-> 0, sample_count |-> 2, metadata |-> [weight |-> RInt(3)],
      extra |-> <<>>],
     [v |-> 3, b |-> 0, sample_count |-> 1, metadata |-> <<>>,
      extra |-> [weight |-> RInt(3)]],
     [v |-> 0, b |-> 0, sample_count |-> 2, metadata |-> <<>>, extra |-> <<>>],
     [v |-> 1, b |-> 2, sample_count |-> 3, metadata |-> <<>>,
      extra |-> [weight |-> RInt(1)]]}

\* the i-th update of a batch: the dict receive_local_update builds
\* (app.py lines 84-90), with the caller's extra keys
BatchUpdate(kind, i) ==
    [device_id |-> <<"d1", "d2", "d3", "d1">>[i],
     weights |-> ModelWeights(LayerSizes, kind.v, kind.b),
     sample_count |-> kind.sample_count,
     timestamp |-> i,
     metadata |-> kind.metadata] @@ kind.extra

AggregationBatches ==
    UNION {{[i \in 1..n |-> BatchUpdate(kinds[i], i)] : kinds \in [1..n -> UpdateKinds]} :
              n \in 0..MaxBatch}

InitAggregation ==
    /\ host = "functions"
    /\ InitGlobal
    /\ InitDevices
    /\ global_server_url = "None"

\* the batch under test is chosen first
ChooseBatch(batch) ==
    /\ host = "functions"
    /\ result.op = "init"
    /\ pending_updates = <<>>
    /\ batch # <<>>
    /\ pending_updates' = batch
    /\ result' = [op |-> "batch"]
    /\ UNCHANGED <<host, aggregator_strategy, gmvars, aggregation_config,
                   aggregation_count, stored, clock, accepted, round_updates,
                   devvars>>

\* ModelAggregator(strategy).aggregate(batch) on a fresh aggregator
RunAggregator(strategy) ==
    /\ host = "functions"
    /\ result.op \in {"init", "batch"}
    /\ \E a \in {AggregatorAggregate(strategy, pending_updates,
                                     aggregation_count, clock)} :
           /\ aggregation_count' = a.count
           /\ result' = [op |-> "aggregator.aggregate", strategy |-> strategy,
                         returned |-> a]
    /\ aggregator_strategy' = strategy
    /\ UNCHANGED <<host, gmvars, pending_updates, aggregation_config, stored,
                   clock, accepted, round_updates, devvars>>

\* GlobalModel().aggregate_updates(batch, strategy) on a fresh global model
RunAggregateUpdates(strategy) ==
    /\ host = "functions"
    /\ result.op \in {"init", "batch"}
    /\ \E r \in {AggregateUpdates(GM, pending_updates, strategy, clock)} :
           /\ model' = r.model
           /\ aggregation_history' = r.history
           /\ device_contributions' = r.contributions
           /\ round_updates' =
                 IF r.raised = NoException /\ ~r.is_none
                 THEN Append(round_updates, Stamps(pending_updates))
                 ELSE round_updates
           /\ result' = [op |-> "aggregate_updates", strategy |-> strategy,
                         raised |-> r.raised, is_none |-> r.is_none]
    /\ UNCHANGED <<host, aggregator_strategy, pending_updates,
                   aggregation_config, aggregation_count, stored, clock,
                   accepted, devvars>>

\* ModelAggregator.compute_consensus_score(batch)
RunConsensusScore ==
    /\ host = "functions"
    /\ result.op \in {"init", "batch"}
    /\ result' = [op |-> "compute_consensus_score",
                  returned |-> ComputeConsensusScore(pending_updates)]
    /\ UNCHANGED <<host, aggregator_strategy, gmvars, coordvars, devvars>>

NextAggregation ==
    \/ \E b \in AggregationBatches : ChooseBatch(b)
    \/ RunConsensusScore
    \/ \E st \in AggregatorStrategies : RunAggregator(st)
    \/ \E st \in AggregatorStrategies : RunAggregateUpdates(st)

SpecAggregation == InitAggregation /\ [][NextAggregation]_vars

---------------------------------------------------------------------------
(* Properties *)

\* the number of rounds that used the update with this timestamp
RoundsUsing(stamp) ==
    Cardinality({i \in 1..Len(round_updates) : stamp \in round_updates[i]})

\* the updates some round has used
Consumed == UNION Range(round_updates)

\* how often device d occurs in a list of device ids
Occurrences(device_ids, d) ==
    Cardinality({j \in 1..Len(device_ids) : device_ids[j] = d})

\* the devices named by the history or by the counters
KnownDevices ==
    Devices \cup DOMAIN device_contributions
    \cup UNION {Range(aggregation_history[i].device_ids) :
                   i \in 1..Len(aggregation_history)}

\* all K device tasks of the count-mode scenario have posted their update
AllPosted ==
    /\ aggregation_config["auto_aggregate_threshold"] # AutoAggregateThreshold
    /\ Cardinality(PostedDevices) = aggregation_config["auto_aggregate_threshold"]

\* C1: in count mode with threshold K, once K distinct devices have each
\* posted one update (in any order), the history holds exactly one round,
\* that round names all K devices, and the pending buffer is empty.
C1_TriggerExactlyOnce ==
    AllPosted =>
        /\ Len(aggregation_history) = 1
        /\ Range(aggregation_history[1].device_ids) = PostedDevices
        /\ pending_updates = <<>>

\* C2: every update accepted by a coordinator is used by at most one round,
\* and it leaves the pending buffer only by being used by a round.
C2_ConsumedExactlyOnce ==
    host \in {"app", "scheduler"} =>
        \A stamp \in 1..clock :
            /\ RoundsUsing(stamp) <= 1
            /\ stamp \in Stamps(pending_updates) \/ RoundsUsing(stamp) >= 1

C4_SaveFailureNoSecondApplication ==
    [][\A i \in 1..Len(round_updates') :
          i > Len(round_updates) => round_updates'[i] \cap Consumed = {}]_vars

\* C5: a trigger that fails leaves the pending buffer as it was, in the
\* same order (a failing submit leaves it with just its own update added).
C5_FailedRoundKeepsPending ==
    [][/\ (result'.op = "aggregate" /\ result'.http = 500)
            => pending_updates' = pending_updates
       /\ (result'.op = "perform_aggregation" /\ result'.raised # NoException)
            => pending_updates' = pending_updates
       /\ (result'.op = "local-update" /\ result'.http = 500)
            => /\ Len(pending_updates') = Len(pending_updates) + 1
               /\ SubSeq(pending_updates', 1, Len(pending_updates))
                     = pending_updates]_vars

\* C5 witness: a trigger has failed with updates pending
C5_Witness ==
    /\ pending_updates # <<>>
    /\ \/ result.op = "aggregate" /\ result.http = 500
       \/ result.op = "perform_aggregation" /\ result.raised # NoException

\* C6 (as claimed): device_contributions[d] is the number of rounds whose
\* device_ids contain d, also when a round holds two updates of d.
C6_ContributionsCountRounds ==
    \A d \in KnownDevices :
        Get(device_contributions, d, 0) =
            Cardinality({i \in 1..Len(aggregation_history) :
                            d \in Range(aggregation_history[i].device_ids)})

\* C6 (amended): device_contributions[d] is the number of occurrences of d
\* in the device_ids of all rounds, one per update of d that a round used;
\* the counters name exactly the devices that occur.
C6_ContributionsCountUpdates ==
    \A d \in KnownDevices :
        /\ Get(device_contributions, d, 0) =
              SumSeq([i \in 1..Len(aggregation_history) |->
                         Occurrences(aggregation_history[i].device_ids, d)])
        /\ d \in DOMAIN device_contributions
              <=> \E i \in 1..Len(aggregation_history) :
                     d \in Range(aggregation_history[i].device_ids)

\* C6 witness: a recorded round holds two updates of one device
C6_Witness ==
    \E i \in 1..Len(aggregation_history) : \E d \in Devices :
        Occurrences(aggregation_history[i].device_ids, d) >= 2

\* the sum of a dict's values
RECURSIVE SumValues(_, _)
SumValues(dict, keys) ==
    IF keys = {} THEN 0
    ELSE LET k == CHOOSE x \in keys : TRUE
         IN  dict[k] + SumValues(dict, keys \ {k})

\* C7: the contribution counters sum to the number of participants of all
\* rounds, a round's participants being the length of its device_ids.
C7_ContributionsSum ==
    SumValues(device_contributions, DOMAIN device_contributions) =
        SumSeq([i \in 1..Len(aggregation_history) |->
                   Len(aggregation_history[i].device_ids)])

\* C7 witness: two rounds are recorded, one of them with two participants
C7_Witness ==
    /\ Len(aggregation_history) >= 2
    /\ \E i \in 1..Len(aggregation_history) :
          Len(aggregation_history[i].device_ids) >= 2

\* C8: the round index reported for a round is 0-based: it is the length
\* the history had when the round was appended.
C8_RoundIndexZeroBased ==
    /\ (result.op = "aggregate" /\ result.status = "success")
          => result.aggregation_round = Len(aggregation_history) - 1
    /\ (result.op = "local-update" /\ result.status = "received_and_aggregated")
          => result.aggregation_result.aggregation_round
                = Len(aggregation_history) - 1
    /\ (result.op = "perform_aggregation" /\ result.raised = NoException
           /\ ~result.skipped)
          => result.aggregation_round = Len(aggregation_history) - 1

\* C9: the history is append-only: every step keeps the recorded rounds in
\* place, the length never decreases, and it grows by exactly one in a
\* step that records a round.
C9_HistoryAppendOnly ==
    [][/\ Len(aggregation_history') >= Len(aggregation_history)
       /\ Len(aggregation_history') <= Len(aggregation_history) + 1
       /\ SubSeq(aggregation_history', 1, Len(aggregation_history))
             = aggregation_history
       /\ round_updates' # round_updates
             => Len(aggregation_history') = Len(aggregation_history) + 1]_vars

\* C9 witness: the model was loaded from its file after a round was recorded
C9_Witness ==
    /\ Len(aggregation_history) >= 1
    /\ result.op = "load"
    /\ result.raised = NoException

\* C10: a reading whose sensors lack one of the four fields makes
\* process_data fail, with the device's buffer, model and training count
\* left as they were.
C10_MalformedReadingRejected ==
    [][(/\ result'.op = "process_data"
        /\ \E f \in SensorFields : ~Has(result'.sensors, f))
          => /\ result'.raised # NoException
             /\ UNCHANGED <<device_models, device_data_buffers,
                            training_counts>>]_vars

\* C11: every device's reading buffer holds at most the window's capacity.
C11_BufferBounded ==
    \A d \in DOMAIN device_data_buffers :
        Len(device_data_buffers[d]) <= BufferCapacity

\* C11 witness: a device has been handed more readings than the window
\* holds
C11_Witness ==
    \E d \in DOMAIN device_data_buffers :
        /\ Len(arrivals[d]) > BufferCapacity
        /\ Len(device_data_buffers[d]) = BufferCapacity

\* the last k elements of a sequence
LastOf(s, k) == SubSeq(s, Len(s) - k + 1, Len(s))

Min(a, b) == IF a < b THEN a ELSE b

\* C12: after n readings of a device its buffer is exactly the last
\* min(n, capacity) of them, in arrival order.
C12_BufferIsFifoWindow ==
    /\ DOMAIN device_data_buffers = DOMAIN arrivals
    /\ \A d \in DOMAIN arrivals :
          device_data_buffers[d] =
              LastOf(arrivals[d], Min(Len(arrivals[d]), BufferCapacity))

\* C12 witness: a device was handed capacity+1 readings; the first is gone
C12_Witness ==
    \E d \in DOMAIN arrivals :
        /\ Len(arrivals[d]) = BufferCapacity + 1
        /\ Len(device_data_buffers[d]) = BufferCapacity
        /\ device_data_buffers[d][1] = arrivals[d][2]

\* C13 (as claimed): a process_data call emits an update exactly when it
\* trained and the training count after the increment is a multiple of the
\* update interval; the update carries that count and the current weights.
C13_EmitWhenDue ==
    [][result'.op = "process_data" =>
          (outbox' # outbox
              <=> /\ result'.raised = NoException
                  /\ ~result'.is_none
                  /\ training_counts'[result'.device_id] % UpdateFrequency = 0)
      ]_vars

\* C13 (amended): with a global server URL configured the call emits
\* exactly when it trained and the new training count is a multiple of the
\* update interval, and the update posted carries the device, that count as
\* sample_count and the weights the device has after the step; with no URL
\* configured nothing is ever emitted.
C13_EmitWhenDueAndConfigured ==
    [][result'.op = "process_data" =>
          /\ outbox' # outbox
                <=> /\ result'.raised = NoException
                    /\ ~result'.is_none
                    /\ training_counts'[result'.device_id] % UpdateFrequency = 0
                    /\ global_server_url # "None"
          /\ outbox' # outbox
                => /\ Len(outbox') = Len(outbox) + 1
                   /\ SubSeq(outbox', 1, Len(outbox)) = outbox
                   /\ outbox'[Len(outbox')].device_id = result'.device_id
                   /\ outbox'[Len(outbox')].sample_count
                         = training_counts'[result'.device_id]
                   /\ outbox'[Len(outbox')].weights
                         = device_models'[result'.device_id]
      ]_vars

\* C13 witness: an update was emitted by the call that just returned, and
\* an earlier training step of the same device emitted none
C13_Witness ==
    /\ result.op = "process_data"
    /\ result.raised = NoException
    /\ ~result.is_none
    /\ outbox # <<>>
    /\ outbox[Len(outbox)].device_id = result.device_id
    /\ outbox[Len(outbox)].sample_count = result.training_count
    /\ result.training_count >= UpdateFrequency

\* C14: every update in a coordinator's pending buffer has the global
\* model's architecture and a positive sample_count (a submit that brings
\* another architecture or a non-positive sample_count is rejected).
C14_PendingUpdatesValid ==
    host \in {"app", "scheduler"} =>
        \A i \in 1..Len(pending_updates) :
            /\ pending_updates[i]["weights"]["architecture"] = LayerSizes
            /\ pending_updates[i]["sample_count"] > 0

\* whether the weight dicts of a batch of updates name different
\* architectures
MixedArchitectures(updates) ==
    \E i, j \in 1..Len(updates) :
        updates[i]["weights"]["architecture"]
            # updates[j]["weights"]["architecture"]

\* C15: a round over updates whose architectures are not all identical
\* fails with an exception and leaves weights, history and contribution
\* counters unchanged; no result is built from the first update's
\* architecture.
C15_MixedArchitecturesRejected ==
    [][/\ (/\ result'.op = "aggregate_updates"
            /\ \E i, j \in DOMAIN result'.architectures :
                   result'.architectures[i] # result'.architectures[j])
              => /\ result'.raised # NoException
                 /\ UNCHANGED gmvars
       /\ (/\ result'.op = "aggregate"
            /\ MixedArchitectures(pending_updates))
              => /\ result'.http = 500
                 /\ UNCHANGED gmvars
       /\ (/\ result'.op = "perform_aggregation"
            /\ MixedArchitectures(pending_updates))
              => /\ result'.raised # NoException
                 /\ UNCHANGED gmvars]_vars

\* C16: aggregating with a strategy tag other than fedavg, equal, weighted
\* or median, or aggregating no updates, fails (an exception, or None
\* returned) and replaces no weights, appends no history entry, increments
\* no contribution counter and no round counter.
C16_UnknownStrategyRejected ==
    [][/\ (/\ result'.op = "aggregate_updates"
            /\ \/ result'.strategy \notin Strategies
               \/ result'.architectures = <<>>)
              => /\ result'.raised # NoException \/ result'.is_none
                 /\ UNCHANGED gmvars
       /\ (/\ result'.op = "aggregator.aggregate"
            /\ \/ result'.strategy \notin Strategies
               \/ result'.num_updates = 0)
              => /\ \/ result'.returned.raised # NoException
                    \/ result'.returned.is_none
                 /\ UNCHANGED <<gmvars, aggregation_count>>]_vars

\* C17: a trigger that finds the pending buffer empty is a no-op: no
\* history entry, and weights, contribution counters, pending buffer, the
\* aggregator's round counter and the stored model all unchanged.
C17_EmptyTriggerNoOp ==
    [][/\ (result'.op = "aggregate" /\ pending_updates = <<>>)
              => /\ result'.status = "no_updates"
                 /\ UNCHANGED <<gmvars, pending_updates, aggregation_count,
                                stored, round_updates>>
       /\ (result'.op = "perform_aggregation" /\ pending_updates = <<>>)
              => /\ result'.skipped
                 /\ UNCHANGED <<gmvars, pending_updates, aggregation_count,
                                stored, round_updates>>
       /\ (result'.op = "aggregate_updates" /\ result'.architectures = <<>>)
              => /\ result'.is_none
                 /\ UNCHANGED <<gmvars, round_updates>>]_vars

\* C17 witness: after a recorded round, a trigger found the buffer empty
C17_Witness ==
    /\ Len(aggregation_history) >= 1
    /\ pending_updates = <<>>
    /\ \/ result.op = "aggregate" /\ result.status = "no_updates"
       \/ result.op = "perform_aggregation" /\ result.skipped

\* C18: in count-threshold mode (manual_mode off) the server at rest is
\* Collecting: the pending buffer holds fewer updates than the threshold.
C18_CollectingAtRest ==
    (host = "app" /\ ~aggregation_config["manual_mode"]) =>
        Len(pending_updates) < aggregation_config["auto_aggregate_threshold"]

\* a round is triggered: the threshold is reached in count mode, or updates
\* are pending in interval mode (the timer will wake up)
Triggered ==
    \/ host = "app" /\ ThresholdReached(aggregation_config, pending_updates)
    \/ host = "scheduler" /\ pending_updates # <<>>

\* C19: once a round is triggered, every update then pending is eventually
\* used by a recorded round and removed from the pending buffer.
C19_TriggeredRoundCompletes ==
    \A stamp \in 1..MaxUpdates :
        (Triggered /\ stamp \in Stamps(pending_updates))
            ~> (stamp \notin Stamps(pending_updates) /\ RoundsUsing(stamp) >= 1)

\* C20: in interval mode a submit fires no round, rounds are produced only
\* by wake-ups, and a wake-up that finds updates pending produces exactly
\* one round holding every one of them.
C20_RoundsOnlyAtWakeUps ==
    [][host = "scheduler" =>
          /\ result'.op = "receive_local_update"
                => UNCHANGED <<gmvars, round_updates>>
          /\ Len(aggregation_history') # Len(aggregation_history)
                => result'.op = "perform_aggregation"
          /\ (result'.op = "perform_aggregation" /\ pending_updates # <<>>)
                => /\ Len(aggregation_history') = Len(aggregation_history) + 1
                   /\ aggregation_history'[Len(aggregation_history')].device_ids
                         = [i \in 1..Len(pending_updates) |->
                               pending_updates[i]["device_id"]]
                   /\ round_updates'
                         = Append(round_updates, Stamps(pending_updates))]_vars

\* the j-th smallest element of a set of numbers
NthOf(S, j) == CHOOSE x \in S : Cardinality({y \in S : y < x}) = j - 1

\* C21: the device_ids of a round recorded by a coordinator list the devices
\* of the round's updates in the order in which submit accepted them.
C21_DeviceIdsInSubmissionOrder ==
    host \in {"app", "scheduler"} =>
        /\ Len(round_updates) = Len(aggregation_history)
        /\ \A i \in 1..Len(aggregation_history) :
              aggregation_history[i].device_ids =
                  [j \in 1..Cardinality(round_updates[i]) |->
                      accepted[NthOf(round_updates[i], j)]]

\* C21 witness: a coordinator recorded a round of d2's update followed by
\* d1's
C21_Witness ==
    /\ host \in {"app", "scheduler"}
    /\ \E i \in 1..Len(aggregation_history) :
          aggregation_history[i].device_ids = <<"d2", "d1">>

\* the sample-weighted mean of the batch, coordinate by coordinate: the sum
\* of sample_count_i * value_i over the total sample count
ExpectedFedAvg(updates, key) ==
    [l \in 1..Len(updates[1]["weights"][key]) |->
        [c \in 1..Len(updates[1]["weights"][key][l]) |->
            RDiv(RSum([i \in 1..Len(updates) |->
                          RMul(RInt(updates[i]["sample_count"]),
                               updates[i]["weights"][key][l][c])]),
                 RInt(SumSeq([i \in 1..Len(updates) |->
                                 updates[i]["sample_count"]])))]]

\* C22: for a non-empty batch of same-architecture updates with positive
\* sample counts, FedAvg (the aggregator's and the global model's) yields in
\* every coordinate the sum of sample_count_i * value_i divided by the total
\* sample count.
C22_FedAvgIsSampleWeightedMean ==
    /\ (/\ result.op = "aggregator.aggregate"
         /\ result.strategy = "fedavg"
         /\ pending_updates # <<>>)
           => /\ result.returned.raised = NoException
              /\ ~result.returned.is_none
              /\ result.returned.value["weights"]
                    = ExpectedFedAvg(pending_updates, "weights")
              /\ result.returned.value["biases"]
                    = ExpectedFedAvg(pending_updates, "biases")
    /\ (/\ host = "functions"
         /\ result.op = "aggregate_updates"
         /\ result.strategy = "fedavg"
         /\ pending_updates # <<>>)
           => /\ result.raised = NoException
              /\ model.weights = ExpectedFedAvg(pending_updates, "weights")
              /\ model.biases = ExpectedFedAvg(pending_updates, "biases")

\* C22 witness: FedAvg was applied to three updates with sample counts 1, 2
\* and 3
C22_Witness ==
    /\ host = "functions"
    /\ result.op = "aggregator.aggregate"
    /\ result.strategy = "fedavg"
    /\ Len(pending_updates) = 3
    /\ {pending_updates[i]["sample_count"] : i \in 1..3} = {1, 2, 3}

\* the mean of the batch weighted by the scalars in the updates' metadata,
\* re-normalized to sum 1
ExpectedByMetadataWeight(updates, key) ==
    [l \in 1..Len(updates[1]["weights"][key]) |->
        [c \in 1..Len(updates[1]["weights"][key][l]) |->
            RDiv(RSum([i \in 1..Len(updates) |->
                          RMul(updates[i]["metadata"]["weight"],
                               updates[i]["weights"][key][l][c])]),
                 RSum([i \in 1..Len(updates) |->
                          updates[i]["metadata"]["weight"]]))]]

\* C23: for updates submitted with a weight w_i in their metadata, the
\* weighted strategy yields the sum of (w_i / sum of w) * tensor_i.
C23_WeightedUsesMetadataWeight ==
    (/\ result.op = "aggregator.aggregate"
     /\ result.strategy = "weighted"
     /\ pending_updates # <<>>
     /\ \A i \in 1..Len(pending_updates) :
            Has(pending_updates[i]["metadata"], "weight"))
       => /\ result.returned.raised = NoException
          /\ ~result.returned.is_none
          /\ result.returned.value["weights"]
                = ExpectedByMetadataWeight(pending_updates, "weights")
          /\ result.returned.value["biases"]
                = ExpectedByMetadataWeight(pending_updates, "biases")

\* C24: the consensus score is 1.0 for fewer than two updates, and 0.0 for
\* two or more updates of which at least one has a zero flattened vector.
C24_ConsensusScoreEdgeCases ==
    (host = "functions" /\ result.op = "compute_consensus_score") =>
        /\ Len(pending_updates) < 2
              => result.returned = [raised |-> NoException, value |-> RInt(1)]
        /\ (/\ Len(pending_updates) >= 2
             /\ \E i \in 1..Len(pending_updates) :
                    Norm(FlattenWeights(pending_updates[i]["weights"])) = RInt(0))
              => result.returned = [raised |-> NoException, value |-> RInt(0)]

\* C26: for each of fedavg, equal, weighted and median, the weights the
\* global model holds after a round are those ModelAggregator computes for
\* the same updates and the same strategy.
C26_GlobalModelInstallsAggregatorResult ==
    (/\ host = "functions"
     /\ result.op = "aggregate_updates"
     /\ result.strategy \in Strategies
     /\ pending_updates # <<>>)
       => \E a \in {AggregatorAggregate(result.strategy, pending_updates, 0,
                                        clock)} :
             /\ a.raised = result.raised
             /\ a.raised = NoException
                   => /\ model.weights = a.value["weights"]
                      /\ model.biases = a.value["biases"]

\* C25: set_weights reached through update_from_global fails when the
\* shapes of the given weights disagree with the model's architecture, and
\* then leaves the model's weights and biases unchanged.
C25_ImportWeightsChecksShapes ==
    [][(/\ result'.op = "update_from_global"
        /\ Has(device_models, result'.device_id)
        /\ result'.architecture # LayerSizes)
          => /\ result'.raised # NoException
             /\ device_models' = device_models]_vars

\* the state a manager keeps for device d: absent, or its model, buffer and
\* training count
Session(models, buffers, counts, d) ==
    IF Has(models, d)
    THEN [present |-> TRUE, model |-> models[d], buffer |-> buffers[d],
          training_count |-> counts[d]]
    ELSE [present |-> FALSE]

\* C28: process_data and update_from_global for one device leave the
\* model, buffer and training count of every other device unchanged (and
\* create no session for it); update_from_global for a device without a
\* session creates none and changes nothing.
C28_DeviceIsolation ==
    [][result'.op \in {"process_data", "update_from_global"} =>
          /\ DOMAIN device_models' = DOMAIN device_data_buffers'
          /\ DOMAIN device_models' = DOMAIN training_counts'
          /\ \A d \in Sensed \ {result'.device_id} :
                Session(device_models', device_data_buffers',
                        training_counts', d)
                  = Session(device_models, device_data_buffers,
                            training_counts, d)
          /\ (result'.op = "update_from_global"
                 /\ ~Has(device_models, result'.device_id))
                => UNCHANGED <<device_models, device_data_buffers,
                               training_counts>>]_vars

\* C28 witness: both devices have trained, and the model of one of them was
\* then replaced by global weights
C28_Witness ==
    /\ result.op = "update_from_global"
    /\ \A d \in Sensed : Has(training_counts, d) /\ training_counts[d] >= 1
    /\ \E d \in Sensed : device_models[d].steps # <<>>
    /\ device_models[result.device_id].steps = <<>>

\* the number of readings in a log that carry all four sensor fields
ValidReadings(log) ==
    Cardinality({i \in 1..Len(log) : SensorFields \subseteq DOMAIN log[i].sensors})

\* C27: a device that has been handed n valid readings has training_count
\* max(0, n - 1), one train_step having run for each reading after the
\* first.
C27_TrainingCountFollowsReadings ==
    \A d \in DOMAIN arrivals :
        /\ training_counts[d] =
              (IF ValidReadings(arrivals[d]) = 0 THEN 0
               ELSE ValidReadings(arrivals[d]) - 1)
        /\ device_models[d].update_count = training_counts[d]

\* C29: a submit that answers with an error has not added its update: the
\* pending buffer is what it was before the call.
C29_FailedSubmitNotPending ==
    [][(result'.op = "local-update" /\ result'.http = 500)
          => pending_updates' = pending_updates]_vars

\* C30: update_sent is true only if the update of that training step was
\* handed to the global server: a server is configured and the POST
\* succeeded.
C30_UpdateSentMeansDelivered ==
    [][(/\ result'.op = "process_data"
        /\ result'.raised = NoException
        /\ ~result'.is_none
        /\ result'.update_sent)
          => /\ global_server_url # "None"
             /\ Len(outbox') = Len(outbox) + 1
             /\ outbox'[Len(outbox')].device_id = result'.device_id
             /\ outbox'[Len(outbox')].delivered]_vars

====
